---- MODULE Spec2Model ----
(***************************************************************************)
(* The lending workflow of the library backend: the borrow_book and        *)
(* return_book request handlers of routes/routes_api.py over the loans     *)
(* and books collections (models/loans_model.py, models/books_model.py).   *)
(*                                                                         *)
(* Two granularities are modelled from the same storage operators:         *)
(*   - borrow_book / return_book: a whole handler as one action            *)
(*     (requests served one at a time);                                    *)
(*   - BorrowBegin, BorrowCreateLoan, BorrowToggle, ReturnBegin,           *)
(*     ReturnLoan, ReturnToggle: one action per storage access of a        *)
(*     handler, so that requests of different workers interleave.          *)
(* On top of these: the same whole handlers over a store whose writes can   *)
(* fail (SpecFault), the caller's identity as get_current_user_id resolves *)
(* it (SpecIdentity), and the two loan listings, get_active_loans and      *)
(* get_user_loans, as aggregation pipelines (SpecRead).                    *)
(***************************************************************************)
EXTENDS Integers, Sequences, FiniteSets

\* ------------------------------------------------------------------ bounds
MaxLoans == 2
MaxNow == 1
MaxInitLoans == 2
MaxConcLoans == 1
MaxWishlist == 2
MaxSignups == 2
MaxSeedBorrows == 1
MaxReborrows == 1

\* --------------------------------------------------------------- constants
Users == {"u1", "u2"}
NoUser == "anonymous"
Callers == Users \cup {NoUser}
\* the id of a user whose record has been deleted, still carried by a
\* session or a token issued before
DeletedUser == "u0"
Identities == Callers \cup {DeletedUser}

Books == {"b1", "b2"}
NoBookId == ""
UnknownBookId == "b9"
\* a string that ObjectId() rejects
MalformedBookId == "not-an-id"
BookIds == Books \cup {UnknownBookId, MalformedBookId, NoBookId}
\* concurrent requests contend for one book; books do not interact
ContendedBookIds == {"b1", UnknownBookId, NoBookId}

LoanIds == 1..MaxLoans
\* a loan identifier that ObjectId() rejects
MalformedLoanId == 0
ReturnLoanIds == LoanIds \cup {MalformedLoanId}
ConcLoanIds == 1..MaxConcLoans

Procs == {"p1", "p2"}
Main == "p1"

DueDays == 14
NoDate == -1

\* response messages of the two handlers
AuthRequired == "Authentication required"
BookIdRequired == "book_id is required"
BookNotFound == "Book not found"
BookNotAvailable == "Book is not available"
BorrowedOk == "Book borrowed successfully"
LoanNotFound == "Loan not found"
Unauthorized == "Unauthorized"
AlreadyReturned == "Book already returned"
ReturnedOk == "Book returned successfully"
WishlistOk == "Book added to wishlist"
Proceed == "proceed"

VARIABLES books, loans, users, wishlist, now, pc, req, resp

vars == <<books, loans, users, wishlist, now, pc, req, resp>>

\* ------------------------------------------------------- storage operators

\* datetime.utcnow(): the clock has not moved or has moved on since the last
\* reading
utcnow(t) == {t2 \in {t, t + 1} : t2 <= MaxNow}

\* variant: the two identifiers are stored in each other's field
create_loan_swapped(ls, user_id, book_id, t1, t2) ==
    Append(ls, [user_id |-> book_id,
                book_id |-> user_id,
                borrowed_date |-> t1,
                due_date |-> t2 + DueDays,
                returned_date |-> NoDate,
                status |-> "active"])

create_loan(ls, user_id, book_id, t1, t2) ==
    Append(ls, [user_id |-> user_id,
                book_id |-> book_id,
                borrowed_date |-> t1,
                due_date |-> t2 + DueDays,
                returned_date |-> NoDate,
                status |-> "active"])

\* find_one by _id; ObjectId() raising on a malformed id is caught and None
\* is returned
get_loan_by_id(ls, loan_id) ==
    IF loan_id = MalformedLoanId THEN FALSE ELSE loan_id \in 1..Len(ls)

\* variant: the update sets the status and forgets the timestamp
return_loan_status_only(ls, loan_id, t) ==
    IF loan_id \in 1..Len(ls)
    THEN [ls EXCEPT ![loan_id].status = "returned"]
    ELSE ls

\* variant: the update sets the timestamp and forgets the status
return_loan_date_only(ls, loan_id, t) ==
    IF loan_id \in 1..Len(ls)
    THEN [ls EXCEPT ![loan_id].returned_date = t]
    ELSE ls

\* variant: the update flips the status instead of setting it
return_loan_flip(ls, loan_id, t) ==
    IF loan_id \in 1..Len(ls)
    THEN [ls EXCEPT ![loan_id].returned_date = t,
                    ![loan_id].status = IF ls[loan_id].status = "active"
                                        THEN "returned" ELSE "active"]
    ELSE ls

return_loan(ls, loan_id, t) ==
    IF loan_id \in 1..Len(ls)
    THEN [ls EXCEPT ![loan_id].returned_date = t,
                    ![loan_id].status = "returned"]
    ELSE ls

\* find_one by _id; ObjectId() raising on a malformed id is caught and None
\* is returned
get_book_by_id(bs, book_id) ==
    IF book_id = MalformedBookId THEN FALSE ELSE book_id \in DOMAIN bs

\* variant: the update matches no document
update_book_noop(bs, book_id, available, t) == bs

\* variant: the filter is missing and the update reaches every book
update_book_all(bs, book_id, available, t) ==
    [b \in DOMAIN bs |-> [available |-> available, updated_at |-> t]]

update_book(bs, book_id, available, t) ==
    IF book_id \in DOMAIN bs
    THEN [bs EXCEPT ![book_id].available = available,
                    ![book_id].updated_at = t]
    ELSE bs

\* variant: the flag is flipped rather than set to the argument
toggle_book_availability_flip(bs, book_id, available, t) ==
    IF book_id \in DOMAIN bs
    THEN update_book(bs, book_id, ~bs[book_id].available, t)
    ELSE bs

\* variant: the argument is ignored and the book is always marked borrowed
toggle_book_availability_stuck(bs, book_id, available, t) ==
    update_book(bs, book_id, FALSE, t)

toggle_book_availability(bs, book_id, available, t) ==
    update_book(bs, book_id, available, t)

\* ------------------------------------------------ the handlers' guard chains

\* variant: the availability check is missing
BorrowCheck_no_available(user_id, book_id, bs) ==
    IF user_id = NoUser THEN AuthRequired
    ELSE IF book_id = NoBookId THEN BookIdRequired
    ELSE IF ~get_book_by_id(bs, book_id) THEN BookNotFound
    ELSE Proceed

\* variant: a missing book is answered like a borrowed one
BorrowCheck_merged(user_id, book_id, bs) ==
    IF user_id = NoUser THEN AuthRequired
    ELSE IF book_id = NoBookId THEN BookIdRequired
    ELSE IF ~get_book_by_id(bs, book_id) \/ ~bs[book_id].available THEN BookNotAvailable
    ELSE Proceed

BorrowCheck(user_id, book_id, bs) ==
    IF user_id = NoUser THEN AuthRequired
    ELSE IF book_id = NoBookId THEN BookIdRequired
    ELSE IF ~get_book_by_id(bs, book_id) THEN BookNotFound
    ELSE IF ~bs[book_id].available THEN BookNotAvailable
    ELSE Proceed

\* variant: the already-returned check is missing
ReturnCheck_no_status(user_id, loan_id, ls) ==
    IF user_id = NoUser THEN AuthRequired
    ELSE IF ~get_loan_by_id(ls, loan_id) THEN LoanNotFound
    ELSE IF ls[loan_id].user_id # user_id THEN Unauthorized
    ELSE Proceed

\* variant: the already-returned check comes before the ownership check
ReturnCheck_status_first(user_id, loan_id, ls) ==
    IF user_id = NoUser THEN AuthRequired
    ELSE IF ~get_loan_by_id(ls, loan_id) THEN LoanNotFound
    ELSE IF ls[loan_id].status = "returned" THEN AlreadyReturned
    ELSE IF ls[loan_id].user_id # user_id THEN Unauthorized
    ELSE Proceed

ReturnCheck(user_id, loan_id, ls) ==
    IF user_id = NoUser THEN AuthRequired
    ELSE IF ~get_loan_by_id(ls, loan_id) THEN LoanNotFound
    ELSE IF ls[loan_id].user_id # user_id THEN Unauthorized
    ELSE IF ls[loan_id].status = "returned" THEN AlreadyReturned
    ELSE Proceed

\* ------------------------------------------------------------ initial states

NoReq == [op |-> "none", user_id |-> NoUser, book_id |-> NoBookId, loan_id |-> 0]
NoResp == [message |-> "", loan_id |-> 0]

\* the two accounts every installation starts with; the lending handlers
\* name them u1 and u2
SampleUsers ==
    <<[first_name |-> "Admin", email |-> "admin@library.com", role |-> "admin",
       created_at |-> 0],
      [first_name |-> "John", email |-> "john@example.com", role |-> "student",
       created_at |-> 0]>>

\* the handlers of the lending workflow write neither collection
LendingOnly == UNCHANGED <<users, wishlist>>

InitWorkers ==
    /\ users = SampleUsers
    /\ wishlist = <<>>
    /\ now = 0
    /\ pc = [p \in Procs |-> "idle"]
    /\ req = [p \in Procs |-> NoReq]
    /\ resp = [p \in Procs |-> NoResp]

\* a freshly created catalog: create_book stores available = True
Init ==
    /\ books = [b \in Books |-> [available |-> TRUE, updated_at |-> 0]]
    /\ loans = <<>>
    /\ InitWorkers

\* ------------------------------------------- whole handlers (serial requests)

\* POST /api/loans, exploring stores of fewer than cap loans
borrow_book_within(p, user_id, book_id, cap) ==
    LET out == BorrowCheck(user_id, book_id, books) IN
    /\ pc' = [pc EXCEPT ![p] = "done"]
    /\ req' = [req EXCEPT ![p] = NoReq]
    /\ IF out # Proceed
       THEN /\ resp' = [resp EXCEPT ![p] = [message |-> out, loan_id |-> 0]]
            /\ UNCHANGED <<books, loans, now>>
       ELSE /\ Len(loans) < cap
            /\ \E t1 \in utcnow(now) : \E t2 \in utcnow(t1) : \E t3 \in utcnow(t2) :
                 /\ loans' = create_loan(loans, user_id, book_id, t1, t2)
                 /\ books' = toggle_book_availability(books, book_id, FALSE, t3)
                 /\ now' = t3
            /\ resp' = [resp EXCEPT ![p] = [message |-> BorrowedOk,
                                            loan_id |-> Len(loans) + 1]]

borrow_book(p, user_id, book_id) == borrow_book_within(p, user_id, book_id, MaxLoans)

return_book(p, user_id, loan_id) ==
    LET out == ReturnCheck(user_id, loan_id, loans) IN
    /\ pc' = [pc EXCEPT ![p] = "done"]
    /\ req' = [req EXCEPT ![p] = NoReq]
    /\ IF out # Proceed
       THEN /\ resp' = [resp EXCEPT ![p] = [message |-> out, loan_id |-> 0]]
            /\ UNCHANGED <<books, loans, now>>
       ELSE /\ \E t1 \in utcnow(now) : \E t2 \in utcnow(t1) :
                 /\ loans' = return_loan(loans, loan_id, t1)
                 /\ books' = toggle_book_availability(books, loans[loan_id].book_id, TRUE, t2)
                 /\ now' = t2
            /\ resp' = [resp EXCEPT ![p] = [message |-> ReturnedOk, loan_id |-> 0]]

Borrow == \E u \in Callers : \E b \in BookIds : borrow_book(Main, u, b)

Return == \E u \in Callers : \E l \in ReturnLoanIds : return_book(Main, u, l)

Next == (Borrow /\ LendingOnly) \/ (Return /\ LendingOnly)

Spec == Init /\ [][Next]_vars

\* the states a store can be in between requests: loans borrowed and
\* perhaps returned earlier, each book unavailable exactly when an active
\* loan references it
InitLoan ==
    [user_id : Users, book_id : Books, borrowed_date : {0}, due_date : {DueDays},
     returned_date : {NoDate}, status : {"active"}]
    \cup
    [user_id : Users, book_id : Books, borrowed_date : {0}, due_date : {DueDays},
     returned_date : {0}, status : {"returned"}]

InitLoans == UNION {[1..n -> InitLoan] : n \in 0..MaxInitLoans}

ActiveOn(ls, b) == {i \in 1..Len(ls) : ls[i].book_id = b /\ ls[i].status = "active"}

InitAny ==
    /\ loans \in InitLoans
    /\ books = [b \in Books |-> [available |-> ActiveOn(loans, b) = {},
                                  updated_at |-> 0]]
    /\ InitWorkers

SpecAny == InitAny /\ [][Next]_vars

\* ------------------------------------ handlers step by step (concurrent requests)

Idle(p) == pc[p] \in {"idle", "done"}

\* routes_api.py borrow_book up to the availability check: one read of the book
BorrowBeginWithin(p, user_id, book_id, cap) ==
    LET out == BorrowCheck(user_id, book_id, books) IN
    /\ Idle(p)
    /\ IF out # Proceed
       THEN /\ pc' = [pc EXCEPT ![p] = "done"]
            /\ req' = [req EXCEPT ![p] = NoReq]
            /\ resp' = [resp EXCEPT ![p] = [message |-> out, loan_id |-> 0]]
       ELSE /\ Len(loans) + Cardinality({q \in Procs : pc[q] = "create_loan"}) < cap
            /\ pc' = [pc EXCEPT ![p] = "create_loan"]
            /\ req' = [req EXCEPT ![p] = [op |-> "borrow", user_id |-> user_id,
                                          book_id |-> book_id, loan_id |-> 0]]
            /\ resp' = [resp EXCEPT ![p] = NoResp]
    /\ UNCHANGED <<books, loans, now>>

BorrowBegin(p, user_id, book_id) == BorrowBeginWithin(p, user_id, book_id, MaxConcLoans)

BorrowCreateLoan(p) ==
    /\ pc[p] = "create_loan"
    /\ \E t1 \in utcnow(now) : \E t2 \in utcnow(t1) :
         /\ loans' = create_loan(loans, req[p].user_id, req[p].book_id, t1, t2)
         /\ now' = t2
    /\ req' = [req EXCEPT ![p].loan_id = Len(loans) + 1]
    /\ pc' = [pc EXCEPT ![p] = "borrow_toggle"]
    /\ UNCHANGED <<books, resp>>

BorrowToggle(p) ==
    /\ pc[p] = "borrow_toggle"
    /\ \E t \in utcnow(now) :
         /\ books' = toggle_book_availability(books, req[p].book_id, FALSE, t)
         /\ now' = t
    /\ resp' = [resp EXCEPT ![p] = [message |-> BorrowedOk, loan_id |-> req[p].loan_id]]
    /\ req' = [req EXCEPT ![p] = NoReq]
    /\ pc' = [pc EXCEPT ![p] = "done"]
    /\ UNCHANGED loans

\* routes_api.py return_book up to the status check: one read of the loan
ReturnBegin(p, user_id, loan_id) ==
    LET out == ReturnCheck(user_id, loan_id, loans) IN
    /\ Idle(p)
    /\ IF out # Proceed
       THEN /\ pc' = [pc EXCEPT ![p] = "done"]
            /\ req' = [req EXCEPT ![p] = NoReq]
            /\ resp' = [resp EXCEPT ![p] = [message |-> out, loan_id |-> 0]]
       ELSE /\ pc' = [pc EXCEPT ![p] = "return_loan"]
            /\ req' = [req EXCEPT ![p] = [op |-> "return", user_id |-> user_id,
                                          book_id |-> loans[loan_id].book_id,
                                          loan_id |-> loan_id]]
            /\ resp' = [resp EXCEPT ![p] = NoResp]
    /\ UNCHANGED <<books, loans, now>>

ReturnLoan(p) ==
    /\ pc[p] = "return_loan"
    /\ \E t \in utcnow(now) :
         /\ loans' = return_loan(loans, req[p].loan_id, t)
         /\ now' = t
    /\ pc' = [pc EXCEPT ![p] = "return_toggle"]
    /\ UNCHANGED <<books, req, resp>>

ReturnToggle(p) ==
    /\ pc[p] = "return_toggle"
    /\ \E t \in utcnow(now) :
         /\ books' = toggle_book_availability(books, req[p].book_id, TRUE, t)
         /\ now' = t
    /\ resp' = [resp EXCEPT ![p] = [message |-> ReturnedOk, loan_id |-> 0]]
    /\ req' = [req EXCEPT ![p] = NoReq]
    /\ pc' = [pc EXCEPT ![p] = "done"]
    /\ UNCHANGED loans

StartBorrow == \E p \in Procs : \E u \in Callers : \E b \in ContendedBookIds : BorrowBegin(p, u, b)
StepCreateLoan == \E p \in Procs : BorrowCreateLoan(p)
StepBorrowToggle == \E p \in Procs : BorrowToggle(p)
StartReturn == \E p \in Procs : \E u \in Callers : \E l \in ConcLoanIds : ReturnBegin(p, u, l)
StepReturnLoan == \E p \in Procs : ReturnLoan(p)
StepReturnToggle == \E p \in Procs : ReturnToggle(p)

NextConc ==
    \/ StartBorrow /\ LendingOnly
    \/ StepCreateLoan /\ LendingOnly
    \/ StepBorrowToggle /\ LendingOnly
    \/ StartReturn /\ LendingOnly
    \/ StepReturnLoan /\ LendingOnly
    \/ StepReturnToggle /\ LendingOnly

SpecConc == Init /\ [][NextConc]_vars

\* ------------------------- handlers step by step, one request in flight at a time
StartBorrowAlone ==
    /\ \A q \in Procs : Idle(q)
    /\ \E p \in Procs : \E u \in Callers : \E b \in ContendedBookIds \cup {MalformedBookId} :
         BorrowBegin(p, u, b)

StartReturnAlone ==
    /\ \A q \in Procs : Idle(q)
    /\ \E p \in Procs : \E u \in Callers : \E l \in ConcLoanIds \cup {MalformedLoanId} :
         ReturnBegin(p, u, l)

NextSteps ==
    \/ StartBorrowAlone /\ LendingOnly
    \/ StepCreateLoan /\ LendingOnly
    \/ StepBorrowToggle /\ LendingOnly
    \/ StartReturnAlone /\ LendingOnly
    \/ StepReturnLoan /\ LendingOnly
    \/ StepReturnToggle /\ LendingOnly

SpecSteps == Init /\ [][NextSteps]_vars

\* ------------------------------------------------ two Borrow requests racing
\* Both workers have passed the availability check of borrow_book for the
\* same book and neither has written yet.
InitRace ==
    /\ books = [b \in Books |-> [available |-> TRUE, updated_at |-> 0]]
    /\ loans = <<>>
    /\ users = SampleUsers
    /\ wishlist = <<>>
    /\ now = 0
    /\ pc = [p \in Procs |-> "create_loan"]
    /\ \E b \in Books : \E us \in [Procs -> Users] :
         req = [p \in Procs |-> [op |-> "borrow", user_id |-> us[p],
                                 book_id |-> b, loan_id |-> 0]]
    /\ resp = [p \in Procs |-> NoResp]

NextRace == (StepCreateLoan /\ LendingOnly) \/ (StepBorrowToggle /\ LendingOnly)

SpecRace == InitRace /\ [][NextRace]_vars

\* ------------------------------------------------------- listing the loans
\* The driver hands out identifiers as ObjectId values; serialize_doc turns
\* them into strings before the answer is written.
ObjectId(x) == [oid |-> x]

OidKeys == {"id", "user_id", "book_id"}

LoanDocs(ls) ==
    [i \in 1..Len(ls) |->
        [id |-> ObjectId(i),
         user_id |-> ObjectId(ls[i].user_id),
         book_id |-> ObjectId(ls[i].book_id),
         borrowed_date |-> ls[i].borrowed_date,
         due_date |-> ls[i].due_date,
         returned_date |-> ls[i].returned_date,
         status |-> ls[i].status]]

BookDoc(bs, b) ==
    [id |-> ObjectId(b), available |-> bs[b].available, updated_at |-> bs[b].updated_at]

\* {"$match": {"user_id": ..., "status": "active"}}
match_user_active(docs, user_id) ==
    SelectSeq(docs, LAMBDA d : d.user_id = ObjectId(user_id) /\ d.status = "active")

\* {"$match": {"user_id": ...}}
match_user(docs, user_id) ==
    SelectSeq(docs, LAMBDA d : d.user_id = ObjectId(user_id))

\* $lookup from books, localField book_id, foreignField _id, as book: every
\* document gets the array of the books that match
lookup_book(docs, bs) ==
    [k \in 1..Len(docs) |->
        [id |-> docs[k].id,
         user_id |-> docs[k].user_id,
         book_id |-> docs[k].book_id,
         borrowed_date |-> docs[k].borrowed_date,
         due_date |-> docs[k].due_date,
         returned_date |-> docs[k].returned_date,
         status |-> docs[k].status,
         book |-> IF docs[k].book_id.oid \in DOMAIN bs
                  THEN <<BookDoc(bs, docs[k].book_id.oid)>>
                  ELSE <<>>]]

WithoutBook(d) ==
    [id |-> d.id, user_id |-> d.user_id, book_id |-> d.book_id,
     borrowed_date |-> d.borrowed_date, due_date |-> d.due_date,
     returned_date |-> d.returned_date, status |-> d.status]

WithBook(d, book) ==
    [id |-> d.id, user_id |-> d.user_id, book_id |-> d.book_id,
     borrowed_date |-> d.borrowed_date, due_date |-> d.due_date,
     returned_date |-> d.returned_date, status |-> d.status, book |-> book]

\* $unwind of $book: one document per element of the array; a document with
\* an empty array is kept without the field if preserve is set, dropped if not
RECURSIVE unwind_book(_, _)
unwind_book(docs, preserve) ==
    IF docs = <<>> THEN <<>>
    ELSE LET d == Head(docs)
             rest == unwind_book(Tail(docs), preserve)
         IN IF d.book = <<>>
            THEN IF preserve THEN <<WithoutBook(d)>> \o rest ELSE rest
            ELSE [k \in 1..Len(d.book) |-> WithBook(d, d.book[k])] \o rest

\* variant: the status filter is missing
get_active_loans_any_status(ls, bs, user_id) ==
    IF user_id = NoUser THEN <<>>
    ELSE unwind_book(lookup_book(match_user(LoanDocs(ls), user_id), bs), TRUE)

get_active_loans(ls, bs, user_id) ==
    IF user_id = NoUser THEN <<>>
    ELSE unwind_book(lookup_book(match_user_active(LoanDocs(ls), user_id), bs), TRUE)

\* variant: $unwind without preserveNullAndEmptyArrays
get_user_loans_inner_join(ls, bs, user_id) ==
    IF user_id = NoUser THEN <<>>
    ELSE unwind_book(lookup_book(match_user(LoanDocs(ls), user_id), bs), FALSE)

get_user_loans(ls, bs, user_id) ==
    IF user_id = NoUser THEN <<>>
    ELSE unwind_book(lookup_book(match_user(LoanDocs(ls), user_id), bs), TRUE)

\* every ObjectId value becomes its string, nested documents are walked,
\* everything else is kept
serialize_dict(d) ==
    [key \in DOMAIN d |->
        IF key \in OidKeys THEN d[key].oid
        ELSE IF key = "book"
             THEN [k2 \in DOMAIN d[key] |->
                      IF k2 \in OidKeys THEN d[key][k2].oid ELSE d[key][k2]]
             ELSE d[key]]

serialize_doc(docs) == [k \in 1..Len(docs) |-> serialize_dict(docs[k])]

\* the dashboard page asks for the active loans of the session's user
dashboard(p, user_id) ==
    /\ resp' = [resp EXCEPT ![p] = [message |-> "dashboard", loan_id |-> 0,
                                    user_id |-> user_id,
                                    active_loans |-> get_active_loans(loans, books, user_id)]]
    /\ pc' = [pc EXCEPT ![p] = "done"]
    /\ UNCHANGED <<books, loans, now, req>>

get_user_loans_endpoint(p, user_id) ==
    /\ IF user_id = NoUser
       THEN resp' = [resp EXCEPT ![p] = [message |-> AuthRequired, loan_id |-> 0,
                                         user_id |-> user_id, loans |-> <<>>]]
       ELSE resp' = [resp EXCEPT ![p] =
                        [message |-> "", loan_id |-> 0, user_id |-> user_id,
                         loans |-> serialize_doc(get_user_loans(loans, books, user_id))]]
    /\ pc' = [pc EXCEPT ![p] = "done"]
    /\ UNCHANGED <<books, loans, now, req>>

ListActiveLoans == \E u \in Users : dashboard(Main, u)

ListForUser == \E u \in Callers : get_user_loans_endpoint(Main, u)

\* a store between requests, after some of the books have been deleted
InitRead ==
    /\ loans \in InitLoans
    /\ \E gone \in SUBSET Books :
         books = [b \in Books \ gone |-> [available |-> ActiveOn(loans, b) = {},
                                          updated_at |-> 0]]
    /\ InitWorkers

NextRead == (ListActiveLoans /\ LendingOnly) \/ (ListForUser /\ LendingOnly)

SpecRead == InitRead /\ [][NextRead]_vars

\* --------------------------------------------- the caller's identity
\* the identity of a valid token if there is one, else the user_id of the
\* session, else None; the users collection is not read
get_current_user_id(jwt_identity, session_user_id) ==
    IF jwt_identity # NoUser THEN jwt_identity ELSE session_user_id

BorrowAs ==
    \E jwt, sess \in Identities : \E b \in BookIds :
        borrow_book(Main, get_current_user_id(jwt, sess), b)

ReturnAs ==
    \E jwt, sess \in Identities : \E l \in ReturnLoanIds :
        return_book(Main, get_current_user_id(jwt, sess), l)

NextIdentity == (BorrowAs /\ LendingOnly) \/ (ReturnAs /\ LendingOnly)

SpecIdentity == Init /\ [][NextIdentity]_vars

\* A write can raise inside the driver. insert_one of create_loan is not
\* guarded, so the exception reaches the except clause of borrow_book.
\* update_one of update_book and of return_loan sits inside try/except: the
\* function answers False, and neither handler reads that answer.
\* The requests contend for one book, as the concurrent ones do.

ErrorBorrowing == "Error borrowing book"

\* variant: a failed update is repeated until it is applied
update_book_or_false_retry(bs, book_id, available, t, ok) ==
    update_book(bs, book_id, available, t)

update_book_or_false(bs, book_id, available, t, ok) ==
    IF ok THEN update_book(bs, book_id, available, t) ELSE bs

return_loan_or_false(ls, loan_id, t, ok) ==
    IF ok THEN return_loan(ls, loan_id, t) ELSE ls

borrow_book_unreliable(p, user_id, book_id, insert_ok, update_ok) ==
    LET out == BorrowCheck(user_id, book_id, books) IN
    /\ pc' = [pc EXCEPT ![p] = "done"]
    /\ req' = [req EXCEPT ![p] = NoReq]
    /\ IF out # Proceed
       THEN /\ resp' = [resp EXCEPT ![p] = [message |-> out, loan_id |-> 0]]
            /\ UNCHANGED <<books, loans, now>>
       ELSE /\ Len(loans) < MaxConcLoans
            /\ \E t1 \in utcnow(now) : \E t2 \in utcnow(t1) :
                 IF ~insert_ok
                 THEN /\ resp' = [resp EXCEPT ![p] = [message |-> ErrorBorrowing,
                                                      loan_id |-> 0]]
                      /\ now' = t2
                      /\ UNCHANGED <<books, loans>>
                 ELSE \E t3 \in utcnow(t2) :
                      /\ loans' = create_loan(loans, user_id, book_id, t1, t2)
                      /\ books' = update_book_or_false(books, book_id, FALSE, t3, update_ok)
                      /\ now' = t3
                      /\ resp' = [resp EXCEPT ![p] = [message |-> BorrowedOk,
                                                      loan_id |-> Len(loans) + 1]]

return_book_unreliable(p, user_id, loan_id, loan_ok, book_ok) ==
    LET out == ReturnCheck(user_id, loan_id, loans) IN
    /\ pc' = [pc EXCEPT ![p] = "done"]
    /\ req' = [req EXCEPT ![p] = NoReq]
    /\ IF out # Proceed
       THEN /\ resp' = [resp EXCEPT ![p] = [message |-> out, loan_id |-> 0]]
            /\ UNCHANGED <<books, loans, now>>
       ELSE /\ \E t1 \in utcnow(now) : \E t2 \in utcnow(t1) :
                 /\ loans' = return_loan_or_false(loans, loan_id, t1, loan_ok)
                 /\ books' = update_book_or_false(books, loans[loan_id].book_id,
                                                  TRUE, t2, book_ok)
                 /\ now' = t2
            /\ resp' = [resp EXCEPT ![p] = [message |-> ReturnedOk, loan_id |-> 0]]

BorrowUnreliable ==
    \E u \in Callers : \E b \in ContendedBookIds : \E insert_ok, update_ok \in BOOLEAN :
        borrow_book_unreliable(Main, u, b, insert_ok, update_ok)

ReturnUnreliable ==
    \E u \in Callers : \E l \in ConcLoanIds : \E loan_ok, book_ok \in BOOLEAN :
        return_book_unreliable(Main, u, l, loan_ok, book_ok)

NextFault == (BorrowUnreliable /\ LendingOnly) \/ (ReturnUnreliable /\ LendingOnly)

SpecFault == Init /\ [][NextFault]_vars

\* ------------------------------------------- the availability write by itself
\* what update_book answers: modified_count > 0, the number of documents
\* the update changed; False as well when ObjectId() raises
update_book_modified(bs, book_id, available, t) ==
    IF book_id = MalformedBookId THEN FALSE
    ELSE /\ book_id \in DOMAIN bs
         /\ update_book(bs, book_id, available, t)[book_id] # bs[book_id]

toggle_book_availability_call(p, book_id, available) ==
    /\ \E t \in utcnow(now) :
         /\ books' = toggle_book_availability(books, book_id, available, t)
         /\ resp' = [resp EXCEPT ![p] =
                        [message |-> "toggle_book_availability", loan_id |-> 0,
                         book_id |-> book_id, available |-> available,
                         result |-> update_book_modified(books, book_id, available, t)]]
         /\ now' = t
    /\ pc' = [pc EXCEPT ![p] = "done"]
    /\ UNCHANGED <<loans, req>>

SetAvailability ==
    \E b \in BookIds \ {NoBookId} : \E v \in BOOLEAN :
        toggle_book_availability_call(Main, b, v)

NextSetAvailability == SetAvailability /\ LendingOnly

SpecSetAvailability == Init /\ [][NextSetAvailability]_vars

\* ------------------------------------------------------------- the wishlist
\* add_to_wishlist_endpoint, one action per storage access: the book lookup
\* of the endpoint, then find_one and insert_one of add_to_wishlist

\* find_one({"user_id": ..., "book_id": ...}): the first entry of the pair, 0
\* if there is none
find_wishlist_item(ws, user_id, book_id) ==
    LET found == {i \in 1..Len(ws) : ws[i].user_id = user_id /\ ws[i].book_id = book_id}
    IN IF found = {} THEN 0 ELSE CHOOSE i \in found : \A j \in found : i <= j

WishlistBegin(p, user_id, book_id) ==
    /\ Idle(p)
    /\ IF user_id = NoUser \/ book_id = NoBookId \/ ~get_book_by_id(books, book_id)
       THEN /\ pc' = [pc EXCEPT ![p] = "done"]
            /\ req' = [req EXCEPT ![p] = NoReq]
            /\ resp' = [resp EXCEPT ![p] =
                           [message |-> IF user_id = NoUser THEN AuthRequired
                                        ELSE IF book_id = NoBookId THEN BookIdRequired
                                        ELSE BookNotFound,
                            loan_id |-> 0]]
       ELSE /\ Len(wishlist) + Cardinality({q \in Procs : pc[q] \in {"wishlist_find", "wishlist_insert"}})
                 < MaxWishlist
            /\ pc' = [pc EXCEPT ![p] = "wishlist_find"]
            /\ req' = [req EXCEPT ![p] = [op |-> "wishlist", user_id |-> user_id,
                                          book_id |-> book_id, loan_id |-> 0]]
            /\ resp' = [resp EXCEPT ![p] = NoResp]
    /\ UNCHANGED <<books, loans, users, wishlist, now>>

WishlistFind(p) ==
    LET existing == find_wishlist_item(wishlist, req[p].user_id, req[p].book_id) IN
    /\ pc[p] = "wishlist_find"
    /\ IF existing # 0
       THEN /\ pc' = [pc EXCEPT ![p] = "done"]
            /\ req' = [req EXCEPT ![p] = NoReq]
            /\ resp' = [resp EXCEPT ![p] = [message |-> WishlistOk, loan_id |-> 0,
                                            wishlist_item |-> existing]]
       ELSE /\ pc' = [pc EXCEPT ![p] = "wishlist_insert"]
            /\ UNCHANGED <<req, resp>>
    /\ UNCHANGED <<books, loans, users, wishlist, now>>

WishlistInsert(p) ==
    /\ pc[p] = "wishlist_insert"
    /\ \E t \in utcnow(now) :
         /\ wishlist' = Append(wishlist, [user_id |-> req[p].user_id,
                                          book_id |-> req[p].book_id,
                                          added_at |-> t])
         /\ now' = t
    /\ resp' = [resp EXCEPT ![p] = [message |-> WishlistOk, loan_id |-> 0,
                                    wishlist_item |-> Len(wishlist) + 1]]
    /\ req' = [req EXCEPT ![p] = NoReq]
    /\ pc' = [pc EXCEPT ![p] = "done"]
    /\ UNCHANGED <<books, loans, users>>

StartWishlist ==
    \E p \in Procs : \E u \in Callers : \E b \in BookIds : WishlistBegin(p, u, b)
StepWishlistFind == \E p \in Procs : WishlistFind(p)
StepWishlistInsert == \E p \in Procs : WishlistInsert(p)

NextWishlist == StartWishlist \/ StepWishlistFind \/ StepWishlistInsert

SpecWishlist == Init /\ [][NextWishlist]_vars

\* ------------------------------------------------------------------- signup
Emails == {"john@example.com", "ann@example.com", "bob@example.com"}

\* what a client can send as email: nothing, or an address with or without
\* blanks around it
RawEmails == [padded : BOOLEAN, text : Emails \cup {""}]

\* str.strip()
strip(raw) == raw.text

MinPasswordLen == 6
PasswordLens == {0, MinPasswordLen - 1, MinPasswordLen}

SignupRequests ==
    [first_name : {"", "John", "Ann"}, last_name : {"", "Doe"},
     email : RawEmails, password_len : PasswordLens]

NamesRequired == "First name and last name are required"
EmailRequired == "Email is required"
PasswordTooShort == "Password must be at least 6 characters"
AccountCreated == "Account created successfully!"
EmailExists == "Email already exists"

get_user_by_email(us, email) == \E i \in 1..Len(us) : us[i].email = email

\* variant: the lookup by email is missing
create_user_unchecked(us, first_name, email, role, t) ==
    Append(us, [first_name |-> first_name, email |-> email, role |-> role,
                created_at |-> t])

\* the users collection after create_user; unchanged when it answers None
create_user(us, first_name, email, role, t) ==
    IF get_user_by_email(us, email) THEN us
    ELSE Append(us, [first_name |-> first_name, email |-> email, role |-> role,
                     created_at |-> t])

SignupCheck(r) ==
    IF r.first_name = "" \/ r.last_name = "" THEN NamesRequired
    ELSE IF strip(r.email) = "" THEN EmailRequired
    ELSE IF r.password_len < MinPasswordLen THEN PasswordTooShort
    ELSE Proceed

signup(p, r) ==
    LET out == SignupCheck(r) IN
    /\ pc' = [pc EXCEPT ![p] = "done"]
    /\ IF out # Proceed
       THEN /\ resp' = [resp EXCEPT ![p] = [message |-> out, loan_id |-> 0]]
            /\ UNCHANGED <<users, now>>
       ELSE /\ Len(users) < Len(SampleUsers) + MaxSignups
            /\ \E t \in utcnow(now) :
                 /\ users' = create_user(users, r.first_name, strip(r.email), "student", t)
                 /\ now' = IF users' = users THEN now ELSE t
            /\ resp' = [resp EXCEPT ![p] =
                           [message |-> IF users' # users THEN AccountCreated
                                        ELSE EmailExists,
                            loan_id |-> 0]]
    /\ UNCHANGED <<books, loans, wishlist, req>>

Signup == \E r \in SignupRequests : signup(Main, r)

NextSignup == Signup

SpecSignup == Init /\ [][NextSignup]_vars

\* ------------------------------------------------------------------ seeding
\* the first four of the sample books of init_database, in its order, with
\* the available flags it gives them
SampleBooks ==
    <<[id |-> "b1", available |-> TRUE], [id |-> "b2", available |-> TRUE],
      [id |-> "b3", available |-> TRUE], [id |-> "b4", available |-> FALSE]>>

SampleBookIds == {SampleBooks[i].id : i \in 1..Len(SampleBooks)}

\* created_books[:3]
SeedLoanCount == 3

\* str(user["_id"]) of the user record at position i
UserIds == <<"u1", "u2">>

\* the nondecreasing sequences of n clock readings from reading t on
ClockReadings(t, n) ==
    {[i \in 1..n |-> t + Cardinality({v \in DOMAIN f : f[v] <= i})] :
        f \in [(t + 1)..MaxNow -> 1..(n + 1)]}

\* variant: every book is created as borrowed
create_book_borrowed(bs, data, t) ==
    [b \in DOMAIN bs \cup {data.id} |->
        IF b = data.id THEN [available |-> FALSE, updated_at |-> t] ELSE bs[b]]

create_book(bs, data, t) ==
    [b \in DOMAIN bs \cup {data.id} |->
        IF b = data.id THEN [available |-> data.available, updated_at |-> t]
        ELSE bs[b]]

RECURSIVE create_books(_, _, _)
create_books(bs, todo, ts) ==
    IF todo = <<>> THEN bs
    ELSE create_books(create_book(bs, Head(todo), Head(ts)), Tail(todo), Tail(ts))

RECURSIVE create_loans(_, _, _, _)
create_loans(ls, user_id, todo, ts) ==
    IF todo = <<>> THEN ls
    ELSE create_loans(create_loan(ls, user_id, Head(todo).id, ts[1], ts[2]),
                      user_id, Tail(todo), Tail(Tail(ts)))

EmptyDatabase ==
    /\ books = <<>>
    /\ loans = <<>>
    /\ users = <<>>
    /\ wishlist = <<>>

InitSeed ==
    /\ EmptyDatabase
    /\ now = 0
    /\ pc = [p \in Procs |-> "idle"]
    /\ req = [p \in Procs |-> NoReq]
    /\ resp = [p \in Procs |-> NoResp]

\* the whole script: users, then the books not yet present, then loans of
\* the student on the first SeedLoanCount books it has just created
init_database ==
    \E ts \in ClockReadings(now, 2 + Len(SampleBooks) + 2 * SeedLoanCount) :
        LET with_admin == create_user(users, "Admin", "admin@library.com", "admin", ts[1])
            with_student == create_user(with_admin, "John", "john@example.com",
                                        "student", ts[2])
            student == with_student # with_admin
            created_books == SelectSeq(SampleBooks, LAMBDA d : d.id \notin DOMAIN books)
            first == SubSeq(created_books, 1,
                            IF Len(created_books) < SeedLoanCount
                            THEN Len(created_books) ELSE SeedLoanCount)
        IN  /\ users' = with_student
            /\ books' = create_books(books, created_books, SubSeq(ts, 3, 2 + Len(SampleBooks)))
            /\ loans' = IF student /\ created_books # <<>>
                        THEN create_loans(loans, UserIds[Len(with_student)], first,
                                          SubSeq(ts, 3 + Len(SampleBooks), Len(ts)))
                        ELSE loans
            /\ now' = IF users' = users /\ books' = books /\ loans' = loans
                      THEN now ELSE ts[Len(ts)]
            /\ UNCHANGED <<wishlist, pc, req, resp>>

SeedBorrow ==
    \E u \in Callers : \E b \in SampleBookIds \cup {NoBookId} :
        borrow_book_within(Main, u, b, SeedLoanCount + MaxSeedBorrows)

NextSeed == init_database \/ (SeedBorrow /\ LendingOnly)

SpecSeed == InitSeed /\ [][NextSeed]_vars

\* --------------------------- Return requests racing with a Borrow in between
\* One loan is out on the contended book; the workers serve Return and
\* Borrow requests step by step.
InitOneLoan ==
    /\ \E u \in Users :
         loans = <<[user_id |-> u, book_id |-> "b1", borrowed_date |-> 0,
                    due_date |-> DueDays, returned_date |-> NoDate,
                    status |-> "active"]>>
    /\ books = [b \in Books |-> [available |-> b # "b1", updated_at |-> 0]]
    /\ InitWorkers

StartReturnFirst == \E p \in Procs : \E u \in Callers : ReturnBegin(p, u, 1)

StartReborrow ==
    \E p \in Procs : \E u \in Callers : \E b \in ContendedBookIds :
        BorrowBeginWithin(p, u, b, 1 + MaxReborrows)

NextDoubleReturn ==
    \/ StartReturnFirst /\ LendingOnly
    \/ StepReturnLoan /\ LendingOnly
    \/ StepReturnToggle /\ LendingOnly
    \/ StartReborrow /\ LendingOnly
    \/ StepCreateLoan /\ LendingOnly
    \/ StepBorrowToggle /\ LendingOnly

SpecDoubleReturn == InitOneLoan /\ [][NextDoubleReturn]_vars

\* ------------------------------------------ two active loans on one book
\* The store after two racing Borrow requests, or after a Borrow of a seeded
\* book: two active loans reference the contended book, which is marked
\* unavailable.
InitTwoLoans ==
    /\ \E us \in [1..2 -> Users] :
         loans = [i \in 1..2 |->
                    [user_id |-> us[i], book_id |-> "b1", borrowed_date |-> 0,
                     due_date |-> DueDays, returned_date |-> NoDate,
                     status |-> "active"]]
    /\ books = [b \in Books |-> [available |-> b # "b1", updated_at |-> 0]]
    /\ InitWorkers

BorrowAgain ==
    \E u \in Callers : \E b \in ContendedBookIds :
        borrow_book_within(Main, u, b, 2 + MaxReborrows)

ReturnAny == \E u \in Callers : \E l \in 0..(2 + MaxReborrows) : return_book(Main, u, l)

NextTwoLoans == (BorrowAgain /\ LendingOnly) \/ (ReturnAny /\ LendingOnly)

SpecTwoLoans == InitTwoLoans /\ [][NextTwoLoans]_vars

\* ------------------------------------- lending after books have been deleted
NextGone == Return /\ LendingOnly

SpecGone == InitRead /\ [][NextGone]_vars

\* ------------------------------------------------ tokens and sessions
\* What the Authorization header of a request holds: nothing, a token that
\* fails verification (expired, forged), or a valid token. A token names an
\* identity whether it verifies or not.
NoToken == [kind |-> "missing", identity |-> NoUser]

Tokens ==
    {NoToken} \cup [kind : {"invalid", "valid"}, identity : Identities \ {NoUser}]

\* verify_jwt_in_request(optional=True) followed by get_jwt_identity(): the
\* identity of a valid token; None without a token; verification of an
\* invalid token raises and get_current_user_id catches it
get_jwt_identity(token) ==
    IF token.kind = "valid" THEN token.identity ELSE NoUser

\* variant: the session is consulted before the token
current_user_id_session_first(token, session_user_id) ==
    IF session_user_id # NoUser THEN session_user_id
    ELSE get_jwt_identity(token)

current_user_id(token, session_user_id) ==
    get_current_user_id(get_jwt_identity(token), session_user_id)

\* the identities that requests with some token and some session act under
RequestCallers ==
    {current_user_id(token, sess) : token \in Tokens, sess \in Identities}

BorrowWith ==
    \E u \in RequestCallers : \E b \in ContendedBookIds : borrow_book(Main, u, b)

ReturnWith ==
    \E u \in RequestCallers : \E l \in ReturnLoanIds : return_book(Main, u, l)

NextToken == (BorrowWith /\ LendingOnly) \/ (ReturnWith /\ LendingOnly)

SpecToken == Init /\ [][NextToken]_vars

\* ------------------------------------------ identities that are not ObjectIds
\* an identity carried by a session or a token that is not the 24 hex digits
\* of an ObjectId
MalformedUserId == "not-a-user-id"

\* variant: every string converts
is_object_id_any(id) ==
    TRUE

\* whether ObjectId(id) returns rather than raises InvalidId
is_object_id(id) ==
    id \notin {MalformedUserId, MalformedBookId, NoBookId, NoUser}

\* POST /api/loans with the conversions of create_loan: ObjectId(user_id)
\* raises before the loan document is built, and the except clause of
\* borrow_book answers 500. A malformed book_id never gets that far:
\* get_book_by_id answers None for it.
borrow_book_converting(p, user_id, book_id) ==
    IF BorrowCheck(user_id, book_id, books) = Proceed /\ ~is_object_id(user_id)
    THEN /\ pc' = [pc EXCEPT ![p] = "done"]
         /\ req' = [req EXCEPT ![p] = NoReq]
         /\ resp' = [resp EXCEPT ![p] = [message |-> ErrorBorrowing, loan_id |-> 0]]
         /\ UNCHANGED <<books, loans, now>>
    ELSE borrow_book(p, user_id, book_id)

BorrowConverting ==
    \E u \in Callers \cup {MalformedUserId} : \E b \in ContendedBookIds :
        borrow_book_converting(Main, u, b)

NextConverting == (BorrowConverting /\ LendingOnly) \/ (Return /\ LendingOnly)

SpecConverting == Init /\ [][NextConverting]_vars

\* =================================================================== claims

AvailIffActive ==
    \A b \in DOMAIN books : (books[b].available = FALSE) <=> (ActiveOn(loans, b) # {})

UniqueActive ==
    \A b \in Books : Cardinality(ActiveOn(loans, b)) <= 1

\* C1 (as stated): starting from a state in which every book is unavailable
\* exactly when an active loan references it, the same holds after every
\* completed Borrow or Return request served one at a time.
C1_AvailableIffActiveLoan == AvailIffActive

\* C1 (amended): starting from a state in which every book is unavailable
\* exactly when an active loan references it and no book has two active
\* loans, both still hold after every completed Borrow or Return request
\* served one at a time.
C1_AvailableIffActiveLoanWhenUnique ==
    [][(AvailIffActive /\ UniqueActive) => (AvailIffActive' /\ UniqueActive')]_vars

\* a Return has just closed one of two loans, the other is still active, and
\* the invariant holds
C1_Witness ==
    /\ resp[Main].message = ReturnedOk
    /\ Len(loans) >= 2
    /\ \E i \in 1..Len(loans) : loans[i].status = "active"
    /\ AvailIffActive
    /\ UniqueActive

\* C2: with requests served one at a time from a store with no loans and
\* all books available, no book ever has two active loans.
C2_AtMostOneActiveLoan ==
    \A b \in Books : \A i, j \in ActiveOn(loans, b) : i = j

\* a Borrow was refused on a book that has an active loan and an earlier,
\* returned one
C2_Witness ==
    /\ resp[Main].message = BookNotAvailable
    /\ \E b \in Books :
         /\ ActiveOn(loans, b) # {}
         /\ \E i \in 1..Len(loans) : loans[i].book_id = b /\ loans[i].status = "returned"

RaceOver == \A p \in Procs : pc[p] = "done"

\* C3: two Borrow requests for one available book that have both read
\* available = true before either wrote both succeed: each is answered with
\* its own loan, both loans are active on that book, and the book is
\* unavailable.
C3_BothBorrowsSucceed ==
    RaceOver =>
        /\ \A p \in Procs : resp[p].message = BorrowedOk
        /\ \A p \in Procs : resp[p].loan_id \in 1..Len(loans)
        /\ \E b \in Books :
             /\ {resp[p].loan_id : p \in Procs} = ActiveOn(loans, b)
             /\ Cardinality(ActiveOn(loans, b)) = 2
             /\ books[b].available = FALSE

C3_Witness ==
    /\ RaceOver
    /\ \E b \in Books : Cardinality(ActiveOn(loans, b)) = 2 /\ ~books[b].available

\* C4 (as stated): a Borrow of an existing book whose available flag is
\* false, by any caller, is answered "Book is not available", inserts no
\* loan and leaves the book as it is.
C4_UnavailableAlwaysConflict ==
    [][\A u \in Callers : \A b \in Books :
         (~books[b].available /\ borrow_book(Main, u, b))
         => /\ resp'[Main].message = BookNotAvailable
            /\ loans' = loans
            /\ books' = books]_vars

\* C4 (amended): a Borrow of an existing book whose available flag is false,
\* by any authenticated caller and after any history, is answered "Book is
\* not available", inserts no loan and leaves the book as it is.
C4_UnavailableConflictForUsers ==
    [][\A u \in Users : \A b \in Books :
         (~books[b].available /\ borrow_book(Main, u, b))
         => /\ resp'[Main].message = BookNotAvailable
            /\ loans' = loans
            /\ books' = books]_vars

\* a Borrow has been refused on a book that is still unavailable
C4_Witness ==
    /\ resp[Main].message = BookNotAvailable
    /\ \E b \in Books : ~books[b].available /\ ActiveOn(loans, b) # {}

\* C5: a Return by the owner of a loan that is already returned is answered
\* "Book already returned" and writes neither the loan nor the book.
C5_ReturnedAlwaysConflict ==
    [][\A p \in Procs : \A u \in Users : \A l \in LoanIds :
         (/\ l \in 1..Len(loans)
          /\ loans[l].user_id = u
          /\ loans[l].status = "returned"
          /\ ReturnBegin(p, u, l))
         => /\ resp'[p].message = AlreadyReturned
            /\ pc'[p] = "done"
            /\ loans' = loans
            /\ books' = books]_vars

\* a second Return has been refused and the loan carries its timestamp
C5_Witness ==
    \E p \in Procs : \E l \in 1..Len(loans) :
        /\ pc[p] = "done"
        /\ resp[p].message = AlreadyReturned
        /\ loans[l].status = "returned"
        /\ loans[l].returned_date # NoDate

\* C6: a Return of an existing loan by an authenticated caller who is not
\* its borrower is answered "Unauthorized", whether the loan is active or
\* returned, and writes neither the loan nor any book.
C6_NotOwnerAlwaysForbidden ==
    [][\A p \in Procs : \A u \in Users : \A l \in LoanIds :
         (/\ l \in 1..Len(loans)
          /\ loans[l].user_id # u
          /\ ReturnBegin(p, u, l))
         => /\ resp'[p].message = Unauthorized
            /\ pc'[p] = "done"
            /\ loans' = loans
            /\ books' = books]_vars

\* a Return by another user has been refused on a loan that is returned
C6_Witness ==
    \E p \in Procs :
        /\ pc[p] = "done"
        /\ resp[p].message = Unauthorized
        /\ Len(loans) >= 1
        /\ \A l \in 1..Len(loans) : loans[l].status = "returned"

LoansOf(ls, b) == {i \in 1..Len(ls) : ls[i].book_id = b}

\* the last request was a successful Borrow by u, and this step is u's Return
\* of the loan that Borrow created
RoundTripReturn(u) ==
    /\ resp[Main].message = BorrowedOk
    /\ loans[resp[Main].loan_id].user_id = u
    /\ return_book(Main, u, resp[Main].loan_id)

\* C7 (as stated): Borrow(u, b) of an available book followed immediately by
\* Return(u, the new loan) leaves b available and leaves exactly one loan for
\* b, returned, with a returned timestamp not before its borrowed timestamp.
C7_RoundTripLeavesOneLoan ==
    [][\A u \in Users :
         RoundTripReturn(u) =>
            LET l == resp[Main].loan_id
                b == loans[l].book_id
            IN /\ books'[b].available
               /\ Cardinality(LoansOf(loans', b)) = 1
               /\ loans'[l].status = "returned"
               /\ loans'[l].returned_date >= loans'[l].borrowed_date]_vars

\* C7 (amended): Borrow(u, b) of an available book adds exactly one loan, for
\* b and u, and the Return(u, that loan) that follows immediately leaves b
\* available, adds no loan, leaves every other loan as it was, and leaves the
\* new loan returned with a returned timestamp not before its borrowed
\* timestamp.
C7_RoundTripAddsOneLoan ==
    [][/\ \A u \in Users : \A b \in Books :
            (books[b].available /\ borrow_book(Main, u, b)) =>
               /\ Len(loans') = Len(loans) + 1
               /\ \A i \in 1..Len(loans) : loans'[i] = loans[i]
               /\ resp'[Main].loan_id = Len(loans')
               /\ loans'[Len(loans')].book_id = b
               /\ loans'[Len(loans')].user_id = u
       /\ \A u \in Users :
            RoundTripReturn(u) =>
               LET l == resp[Main].loan_id
                   b == loans[l].book_id
               IN /\ books'[b].available
                  /\ Len(loans') = Len(loans)
                  /\ \A i \in 1..Len(loans) : i # l => loans'[i] = loans[i]
                  /\ loans'[l].status = "returned"
                  /\ loans'[l].returned_date >= loans'[l].borrowed_date]_vars

\* the second round trip on one book has just ended: the book is available
\* again and has two returned loans, the later one borrowed after time 0
C7_Witness ==
    /\ resp[Main].message = ReturnedOk
    /\ \E b \in Books :
         /\ books[b].available
         /\ Cardinality(LoansOf(loans, b)) = 2
         /\ \A i \in LoansOf(loans, b) : loans[i].status = "returned"
         /\ \E i \in LoansOf(loans, b) : loans[i].borrowed_date > 0

\* C8: a loan is created active, its status only ever changes from active
\* to returned, and no loan disappears; so a returned loan is never active
\* again, whatever Borrow and Return requests run, also concurrently.
C8_LoanLifecycle ==
    [][/\ Len(loans') >= Len(loans)
       /\ \A i \in 1..Len(loans') :
            IF i <= Len(loans)
            THEN \/ loans'[i].status = loans[i].status
                 \/ loans[i].status = "active" /\ loans'[i].status = "returned"
            ELSE loans'[i].status = "active"]_vars

\* two Return requests for one loan ran concurrently and both wrote it
C8_Witness ==
    /\ \A p \in Procs : pc[p] = "done" /\ resp[p].message = ReturnedOk
    /\ \E l \in 1..Len(loans) : loans[l].status = "returned"

\* C9: once a loan is returned its record is never written again, in
\* particular its returned timestamp keeps the value of the first Return.
C9_LoanWrittenOnce ==
    [][\A i \in 1..Len(loans) :
         loans[i].status = "returned" => loans'[i] = loans[i]]_vars

\* C10: in every state, also between the two writes of a Return, a loan has
\* a returned timestamp exactly when its status is returned.
C10_ReturnedDateIffReturned ==
    \A i \in 1..Len(loans) :
        (loans[i].returned_date # NoDate) <=> (loans[i].status = "returned")

\* a Return has updated the loan and has not yet written the book
C10_Witness ==
    \E p \in Procs :
        /\ pc[p] = "return_toggle"
        /\ loans[req[p].loan_id].status = "returned"
        /\ loans[req[p].loan_id].returned_date # NoDate
        /\ ~books[req[p].book_id].available

\* C11: when the loan write or the availability write of a Borrow or Return
\* request does not take effect, the request is not answered with success.
C11_WriteFailureReported ==
    [][/\ \A u \in Users : \A b \in Books : \A insert_ok, update_ok \in BOOLEAN :
            ( /\ BorrowCheck(u, b, books) = Proceed
              /\ ~(insert_ok /\ update_ok)
              /\ borrow_book_unreliable(Main, u, b, insert_ok, update_ok) )
            => resp'[Main].message # BorrowedOk
       /\ \A u \in Users : \A l \in LoanIds : \A loan_ok, book_ok \in BOOLEAN :
            ( /\ ReturnCheck(u, l, loans) = Proceed
              /\ ~(loan_ok /\ book_ok)
              /\ return_book_unreliable(Main, u, l, loan_ok, book_ok) )
            => resp'[Main].message # ReturnedOk
      ]_vars

\* C14: a failed second write is not compensated. When the availability
\* write of a Borrow fails after the loan insert, the new loan is active and
\* the book is left as it was, available; when the availability write of a
\* Return fails after the loan was closed, the loan is returned and the book
\* is left as it was, unavailable.
C14_NoCompensation ==
    [][/\ \A u \in Users : \A b \in Books :
            ( /\ BorrowCheck(u, b, books) = Proceed
              /\ borrow_book_unreliable(Main, u, b, TRUE, FALSE) )
            => /\ Len(loans') = Len(loans) + 1
               /\ loans'[Len(loans')].book_id = b
               /\ loans'[Len(loans')].status = "active"
               /\ books' = books
               /\ books'[b].available = TRUE
       /\ \A u \in Users : \A l \in LoanIds :
            ( /\ ReturnCheck(u, l, loans) = Proceed
              /\ return_book_unreliable(Main, u, l, TRUE, FALSE) )
            => /\ loans'[l].status = "returned"
               /\ books' = books
               /\ books[loans[l].book_id].available = FALSE
                    => books'[loans[l].book_id].available = FALSE
      ]_vars

\* a Return whose availability write failed has just been answered: the loan
\* is returned and its book is still unavailable
C14_Witness ==
    /\ resp[Main].message = ReturnedOk
    /\ \E i \in 1..Len(loans) :
         /\ loans[i].status = "returned"
         /\ ~books[loans[i].book_id].available
         /\ ActiveOn(loans, loans[i].book_id) = {}

StuckUnavailable(b) ==
    b \in DOMAIN books /\ ~books[b].available /\ ActiveOn(loans, b) = {}

\* C17: a book that is unavailable while no active loan references it stays
\* so after every Borrow and every Return request, whether or not the writes
\* of that request take effect.
C17_StuckStaysStuck ==
    [][\A b \in Books : StuckUnavailable(b) => StuckUnavailable(b)']_vars

\* a Borrow of a stuck book has just been refused, and every unavailable
\* book is stuck
C17_Witness ==
    /\ resp[Main].message = BookNotAvailable
    /\ \E b \in Books : StuckUnavailable(b)
    /\ \A b \in Books : ~books[b].available => StuckUnavailable(b)

\* C12: a Borrow that passed its checks first inserts the loan (active,
\* borrowed by the caller, no returned timestamp) and leaves the books alone,
\* then marks the book unavailable and leaves the loans alone; it is
\* answered with success only after the second write, and then the loan
\* named in the answer is the one new loan, it is the only active loan of
\* the book, and the book is unavailable.
C12_BorrowInsertsThenMarks ==
    [][\A p \in Procs :
        /\ (pc[p] = "create_loan" /\ pc'[p] # "create_loan")
           => /\ pc'[p] = "borrow_toggle"
              /\ Len(loans') = Len(loans) + 1
              /\ SubSeq(loans', 1, Len(loans)) = loans
              /\ loans'[Len(loans')].user_id = req[p].user_id
              /\ loans'[Len(loans')].book_id = req[p].book_id
              /\ loans'[Len(loans')].status = "active"
              /\ loans'[Len(loans')].returned_date = NoDate
              /\ books' = books
              /\ resp'[p].message # BorrowedOk
        /\ (pc[p] = "borrow_toggle" /\ pc'[p] # "borrow_toggle")
           => /\ loans' = loans
              /\ books'[req[p].book_id].available = FALSE
              /\ resp'[p].message = BorrowedOk
              /\ resp'[p].loan_id = Len(loans')
              /\ loans'[resp'[p].loan_id].user_id = req[p].user_id
              /\ loans'[resp'[p].loan_id].status = "active"
              /\ loans'[resp'[p].loan_id].returned_date = NoDate
              /\ ActiveOn(loans', req[p].book_id) = {resp'[p].loan_id}
        /\ (resp'[p] # resp[p] /\ resp'[p].message = BorrowedOk)
           => pc[p] = "borrow_toggle"
      ]_vars

\* a Borrow has been answered with success
C12_Witness ==
    \E p \in Procs :
        /\ pc[p] = "done"
        /\ resp[p].message = BorrowedOk
        /\ loans[resp[p].loan_id].status = "active"
        /\ ~books[loans[resp[p].loan_id].book_id].available

\* C13: a Return that passed its checks first sets the loan to returned
\* with a returned timestamp and leaves the books alone, then marks the book
\* that the loan references available and leaves the loans alone; it is
\* answered with success only after the second write, and then the loan is
\* returned and that book is available.
C13_ReturnClosesThenReleases ==
    [][\A p \in Procs :
        /\ (pc[p] = "return_loan" /\ pc'[p] # "return_loan")
           => /\ pc'[p] = "return_toggle"
              /\ loans'[req[p].loan_id].status = "returned"
              /\ loans'[req[p].loan_id].returned_date # NoDate
              /\ books' = books
              /\ resp'[p].message # ReturnedOk
        /\ (pc[p] = "return_toggle" /\ pc'[p] # "return_toggle")
           => /\ loans' = loans
              /\ loans'[req[p].loan_id].status = "returned"
              /\ books'[loans[req[p].loan_id].book_id].available = TRUE
              /\ resp'[p].message = ReturnedOk
        /\ (resp'[p] # resp[p] /\ resp'[p].message = ReturnedOk)
           => pc[p] = "return_toggle"
      ]_vars

\* a Return has been answered with success
C13_Witness ==
    \E p \in Procs :
        /\ pc[p] = "done"
        /\ resp[p].message = ReturnedOk
        /\ \E i \in 1..Len(loans) :
             loans[i].status = "returned" /\ books[loans[i].book_id].available

\* C15: a Borrow by a logged-in user that names a book identifier matching
\* no book, and a Return by a logged-in user that names a loan identifier
\* matching no loan, well-formed or not, are answered with not found and
\* leave every book and every loan as they were.
C15_UnknownIdNotFound ==
    [][\A p \in Procs : \A u \in Users :
        /\ \A b \in (ContendedBookIds \cup {MalformedBookId}) \ {NoBookId} :
             (b \notin DOMAIN books /\ BorrowBegin(p, u, b))
             => /\ resp'[p].message = BookNotFound
                /\ pc'[p] = "done"
                /\ books' = books
                /\ loans' = loans
        /\ \A l \in ConcLoanIds \cup {MalformedLoanId} :
             (l \notin 1..Len(loans) /\ ReturnBegin(p, u, l))
             => /\ resp'[p].message = LoanNotFound
                /\ pc'[p] = "done"
                /\ books' = books
                /\ loans' = loans
      ]_vars

\* a Return naming no loan has just been refused while the book is on loan
C15_Witness ==
    \E p \in Procs :
        /\ resp[p].message = LoanNotFound
        /\ pc[p] = "done"
        /\ \E b \in Books : ~books[b].available /\ ActiveOn(loans, b) # {}

\* C16: a Borrow by a caller whose identity is missing or is not the id of
\* an existing user is answered with authentication required, inserts no
\* loan and changes no book.
C16_UnknownCallerRefused ==
    [][\A jwt, sess \in Identities : \A b \in BookIds :
        ( /\ get_current_user_id(jwt, sess) \notin Users
          /\ borrow_book(Main, get_current_user_id(jwt, sess), b) )
        => /\ resp'[Main].message = AuthRequired
           /\ loans' = loans
           /\ books' = books
      ]_vars

\* C18: the active loans handed to the dashboard of user u are exactly the
\* loans of the collection whose borrower is u and whose status is active,
\* each once; the call changes no book and no loan; and a second call for
\* the same user with nothing written in between is handed the same list.
C18_ActiveLoansOfUser ==
    [][\A u \in Users :
        dashboard(Main, u)
        => LET r == resp'[Main].active_loans IN
           /\ {r[k].id.oid : k \in 1..Len(r)}
                = {i \in 1..Len(loans) : loans[i].user_id = u /\ loans[i].status = "active"}
           /\ \A j, k \in 1..Len(r) : r[j].id = r[k].id => j = k
           /\ \A k \in 1..Len(r) :
                /\ r[k].user_id.oid = u
                /\ r[k].status = "active"
                /\ r[k].book_id.oid = loans[r[k].id.oid].book_id
           /\ books' = books
           /\ loans' = loans
           /\ (resp[Main].message = "dashboard" /\ resp[Main].user_id = u)
                => resp'[Main].active_loans = resp[Main].active_loans
      ]_vars

\* the dashboard has been handed an active loan of a user who also has a
\* returned one
C18_Witness ==
    /\ resp[Main].message = "dashboard"
    /\ Len(resp[Main].active_loans) >= 1
    /\ \E i \in 1..Len(loans) :
         loans[i].user_id = resp[Main].user_id /\ loans[i].status = "returned"

\* C19: the loans endpoint answers a logged-in user u with every loan of u,
\* active or returned, each once; a loan whose book is not in the books
\* collection is in the answer without a book summary, a loan whose book
\* exists carries that book; the answer is not an error.
C19_AllLoansOfUser ==
    [][\A u \in Users :
        get_user_loans_endpoint(Main, u)
        => LET r == resp'[Main].loans IN
           /\ resp'[Main].message = ""
           /\ {r[k].id : k \in 1..Len(r)}
                = {i \in 1..Len(loans) : loans[i].user_id = u}
           /\ \A j, k \in 1..Len(r) : r[j].id = r[k].id => j = k
           /\ \A k \in 1..Len(r) :
                /\ r[k].status = loans[r[k].id].status
                /\ r[k].book_id = loans[r[k].id].book_id
                /\ IF r[k].book_id \in DOMAIN books
                   THEN "book" \in DOMAIN r[k] /\ r[k].book.id = r[k].book_id
                   ELSE "book" \notin DOMAIN r[k]
      ]_vars

\* the endpoint has answered with an active and a returned loan, one of
\* them on a deleted book
C19_Witness ==
    /\ resp[Main].message = ""
    /\ pc[Main] = "done"
    /\ LET r == resp[Main].loans IN
       /\ \E k \in 1..Len(r) : r[k].status = "active"
       /\ \E k \in 1..Len(r) : r[k].status = "returned"
       /\ \E k \in 1..Len(r) : r[k].book_id \notin DOMAIN books

\* the loans of ls are still in ls2, in place and unchanged, except perhaps
\* the loan l
LoansKeptExcept(ls, ls2, l) ==
    /\ Len(ls2) >= Len(ls)
    /\ \A i \in 1..Len(ls) : i # l => ls2[i] = ls[i]

\* the books of bs are still in bs2 and unchanged, except perhaps the book b
BooksKeptExcept(bs, bs2, b) ==
    /\ DOMAIN bs2 = DOMAIN bs
    /\ \A b2 \in DOMAIN bs : b2 # b => bs2[b2] = bs[b2]

\* C20 (as stated): no request deletes a book or a loan; a Borrow of b that
\* passed its checks adds one loan, leaves the others, and changes nothing
\* in the books but the available flag of b; a Return of l that passed its
\* checks changes no loan but l and nothing in the books but the available
\* flag of the book of l.
C20_OnlyFlagAndLoan ==
    [][/\ Len(loans') >= Len(loans)
       /\ DOMAIN books' = DOMAIN books
       /\ \A u \in Users : \A b \in Books :
            ( /\ resp'[Main].message = BorrowedOk
              /\ BorrowCheck(u, b, books) = Proceed
              /\ borrow_book(Main, u, b) )
            => /\ Len(loans') = Len(loans) + 1
               /\ LoansKeptExcept(loans, loans', 0)
               /\ books' = [books EXCEPT ![b].available = FALSE]
       /\ \A u \in Users : \A l \in LoanIds :
            ( /\ resp'[Main].message = ReturnedOk
              /\ ReturnCheck(u, l, loans) = Proceed
              /\ return_book(Main, u, l) )
            => /\ Len(loans') = Len(loans)
               /\ LoansKeptExcept(loans, loans', l)
               /\ books' = [books EXCEPT ![loans[l].book_id].available = TRUE]
      ]_vars

\* C20 (amended): no request deletes a book or a loan; a Borrow of b that
\* passed its checks adds one loan, leaves the others, and changes no book
\* but b, of which it sets the available flag and the update timestamp; a
\* Return of l that passed its checks changes no loan but l and no book but
\* the book of l, of which it sets the available flag and the update
\* timestamp.
C20_OnlyTargetsAndLoan ==
    [][/\ Len(loans') >= Len(loans)
       /\ DOMAIN books' = DOMAIN books
       /\ \A u \in Users : \A b \in Books :
            ( /\ resp'[Main].message = BorrowedOk
              /\ BorrowCheck(u, b, books) = Proceed
              /\ borrow_book(Main, u, b) )
            => /\ Len(loans') = Len(loans) + 1
               /\ LoansKeptExcept(loans, loans', 0)
               /\ BooksKeptExcept(books, books', b)
               /\ books'[b].available = FALSE
       /\ \A u \in Users : \A l \in LoanIds :
            ( /\ resp'[Main].message = ReturnedOk
              /\ ReturnCheck(u, l, loans) = Proceed
              /\ return_book(Main, u, l) )
            => /\ Len(loans') = Len(loans)
               /\ LoansKeptExcept(loans, loans', l)
               /\ BooksKeptExcept(books, books', loans[l].book_id)
               /\ books'[loans[l].book_id].available = TRUE
      ]_vars

\* a Return has just been answered while another book is on loan, and the
\* clock has moved since the store was set up
C20_Witness ==
    /\ resp[Main].message = ReturnedOk
    /\ \E i, j \in 1..Len(loans) :
         /\ loans[i].status = "returned"
         /\ loans[j].status = "active"
         /\ loans[i].book_id # loans[j].book_id
         /\ books[loans[i].book_id].updated_at > 0
         /\ ~books[loans[j].book_id].available

\* C21: toggle_book_availability on an existing book sets its available flag
\* to the argument and answers True, also when the flag had that value
\* already, and changes no other book; on an identifier that matches no book
\* it answers False and changes nothing.
C21_SetAvailabilityAnswers ==
    [][\A b \in BookIds \ {NoBookId} : \A v \in BOOLEAN :
        toggle_book_availability_call(Main, b, v)
        => IF b \in DOMAIN books
           THEN /\ books'[b].available = v
                /\ \A b2 \in DOMAIN books : b2 # b => books'[b2] = books[b2]
                /\ DOMAIN books' = DOMAIN books
                /\ resp'[Main].result = TRUE
           ELSE /\ books' = books
                /\ resp'[Main].result = FALSE
      ]_vars

\* C22: the due timestamp of every loan is its own borrowed timestamp plus
\* the loan period.
C22_DueIsBorrowedPlusPeriod ==
    \A i \in 1..Len(loans) : loans[i].due_date = loans[i].borrowed_date + DueDays

\* C23: the wishlist never holds two entries for the same user and book,
\* whatever the interleaving of the add-to-wishlist requests.
C23_NoDuplicateWishlistEntry ==
    \A i, j \in 1..Len(wishlist) :
        (wishlist[i].user_id = wishlist[j].user_id /\ wishlist[i].book_id = wishlist[j].book_id)
        => i = j

\* C24: after any sequence of signup requests no two user records have the
\* same email, and a signup with names and a password that names a
\* registered email is answered 'Email already exists' and creates no user.
C24_EmailsUnique ==
    [][/\ \A i, j \in 1..Len(users') : users'[i].email = users'[j].email => i = j
       /\ \A r \in SignupRequests :
            ( /\ SignupCheck(r) = Proceed
              /\ \E i \in 1..Len(users) : users[i].email = strip(r.email)
              /\ signup(Main, r) )
            => /\ resp'[Main].message = EmailExists
               /\ users' = users
      ]_vars

\* a signup with the email of an account created by an earlier signup has
\* just been refused
C24_Witness ==
    /\ resp[Main].message = EmailExists
    /\ Len(users) > Len(SampleUsers)

\* the store right after init_database has run on an empty database: the
\* student's loans on the first SeedLoanCount sample books and nothing else
Seeded ==
    /\ Len(loans) = SeedLoanCount
    /\ \A i \in 1..Len(loans) :
         /\ loans[i].book_id = SampleBooks[i].id
         /\ loans[i].user_id = UserIds[2]
         /\ loans[i].status = "active"

\* C25: init_database on an empty database leaves an active loan of the
\* student on each of the first three books it creates and leaves those
\* books available; from that state a Borrow of such a book by another user
\* succeeds and leaves two active loans on the book.
C25_SeedingBypassesWorkflow ==
    [][/\ (EmptyDatabase /\ init_database) =>
            /\ Seeded'
            /\ \A i \in 1..SeedLoanCount : books'[SampleBooks[i].id].available
       /\ \A u \in Users \ {UserIds[2]} : \A i \in 1..SeedLoanCount :
            ( /\ Seeded
              /\ borrow_book_within(Main, u, SampleBooks[i].id,
                                    SeedLoanCount + MaxSeedBorrows) )
            => /\ resp'[Main].message = BorrowedOk
               /\ Cardinality(ActiveOn(loans', SampleBooks[i].id)) = 2
      ]_vars

\* another user has just borrowed a seeded book
C25_Witness ==
    /\ Len(loans) = SeedLoanCount + 1
    /\ resp[Main].message = BorrowedOk
    /\ loans[Len(loans)].user_id # UserIds[2]
    /\ \E i \in 1..SeedLoanCount :
         /\ loans[i].status = "active" /\ loans[i].user_id = UserIds[2]
         /\ loans[i].book_id = loans[Len(loans)].book_id

\* C26: two Return requests for one active loan can both be past the status
\* check; when a Return writes the availability flag while another loan on
\* the same book is active (borrowed after the first Return's write), the
\* flag becomes true and that loan stays active.
C26_LateReturnFreesBorrowedBook ==
    [][\A p \in Procs :
         (pc[p] = "return_toggle" /\ ReturnToggle(p)) =>
            /\ books'[req[p].book_id].available
            /\ \A i \in ActiveOn(loans, req[p].book_id) : loans'[i].status = "active"
      ]_vars

\* both workers were returning loan 1; one finished and then served a
\* Borrow of the same book, and the other has just written the flag
C26_Witness ==
    \E p, q \in Procs :
        /\ p # q
        /\ resp[p].message = ReturnedOk /\ pc[p] = "done"
        /\ resp[q].message = BorrowedOk /\ pc[q] = "done" /\ resp[q].loan_id = 2
        /\ loans[1].status = "returned"
        /\ loans[2].status = "active" /\ loans[2].book_id = loans[1].book_id
        /\ loans[2].user_id # loans[1].user_id
        /\ books[loans[1].book_id].available

\* C27: a successful Return of one of two active loans on a book sets the
\* book available and leaves the other loan active, and a Borrow of a book
\* that is marked available succeeds although an active loan references it.
C27_ReturnIgnoresOtherLoans ==
    [][/\ \A u \in Users : \A l \in 1..Len(loans) :
            ( /\ resp'[Main].message = ReturnedOk
              /\ ActiveOn(loans, loans[l].book_id) \ {l} # {}
              /\ return_book(Main, u, l) )
            => /\ books'[loans[l].book_id].available
               /\ \A i \in ActiveOn(loans, loans[l].book_id) \ {l} :
                    loans'[i].status = "active"
       /\ \A u \in Users : \A b \in Books :
            ( /\ books[b].available
              /\ ActiveOn(loans, b) # {}
              /\ borrow_book_within(Main, u, b, 2 + MaxReborrows) )
            => /\ resp'[Main].message = BorrowedOk
               /\ loans'[Len(loans')].book_id = b
               /\ Cardinality(ActiveOn(loans', b)) = Cardinality(ActiveOn(loans, b)) + 1
      ]_vars

\* one of the two loans was returned and the book has been borrowed again
\* while the other was still active
C27_Witness ==
    /\ Len(loans) = 3
    /\ resp[Main].message = BorrowedOk
    /\ loans[3].status = "active"
    /\ \E i, j \in 1..2 :
         /\ loans[i].status = "returned"
         /\ loans[j].status = "active"
         /\ loans[j].book_id = loans[3].book_id
         /\ loans[j].borrowed_date <= loans[i].returned_date

\* C28: Return by the owner of an active loan whose book record is gone
\* succeeds: the loan becomes returned with a returned timestamp, every other
\* loan is unchanged, and the books collection is exactly what it was.
C28_ReturnOfDeletedBook ==
    [][\A u \in Users : \A l \in 1..Len(loans) :
         ( /\ loans[l].book_id \notin DOMAIN books
           /\ loans[l].status = "active"
           /\ loans[l].user_id = u
           /\ return_book(Main, u, l) )
         => /\ resp'[Main].message = ReturnedOk
            /\ loans'[l].status = "returned"
            /\ loans'[l].returned_date # NoDate
            /\ \A i \in 1..Len(loans) : i # l => loans'[i] = loans[i]
            /\ Len(loans') = Len(loans)
            /\ books' = books
      ]_vars

\* a loan on a deleted book has just been returned
C28_Witness ==
    /\ resp[Main].message = ReturnedOk
    /\ \E l \in 1..Len(loans) :
         /\ loans[l].book_id \notin DOMAIN books
         /\ loans[l].status = "returned"
         /\ loans[l].returned_date # NoDate

\* the identity C29 expects a request to act under
C29_Expected(token, sess) == IF token.kind = "valid" THEN token.identity ELSE sess

\* C29: a request acts under the identity of its valid token if it has one
\* and under its session's user id otherwise: a successful Borrow records
\* that identity as the borrower, Return of an active loan succeeds exactly
\* when that identity is the loan's borrower and is refused as unauthorized
\* for another one, and a request with a session and a missing or invalid
\* token is not asked to authenticate.
C29_TokenBeforeSession ==
    [][\A u \in Identities :
        /\ \A b \in ContendedBookIds :
             borrow_book(Main, u, b) =>
                \A token \in Tokens : \A sess \in Identities :
                    current_user_id(token, sess) = u =>
                        /\ resp'[Main].message = BorrowedOk =>
                              loans'[Len(loans')].user_id = C29_Expected(token, sess)
                        /\ (token.kind # "valid" /\ sess # NoUser) =>
                              resp'[Main].message # AuthRequired
        /\ \A l \in 1..Len(loans) :
             (loans[l].status = "active" /\ return_book(Main, u, l)) =>
                \A token \in Tokens : \A sess \in Identities :
                    ( /\ current_user_id(token, sess) = u
                      /\ C29_Expected(token, sess) # NoUser )
                    => resp'[Main].message =
                          IF loans[l].user_id = C29_Expected(token, sess)
                          THEN ReturnedOk ELSE Unauthorized
      ]_vars

\* two users hold loans, and a Return has just been refused as unauthorized:
\* requests of both identities have been served
C29_Witness ==
    /\ resp[Main].message = Unauthorized
    /\ \E i, j \in 1..Len(loans) : loans[i].user_id # loans[j].user_id

\* C30: a Borrow that passes its checks under an identity that ObjectId()
\* rejects is answered with the 500 error of borrow_book, inserts no loan
\* and changes no book.
C30_ConversionFailureWritesNothing ==
    [][\A b \in ContendedBookIds :
        ( /\ BorrowCheck(MalformedUserId, b, books) = Proceed
          /\ borrow_book_converting(Main, MalformedUserId, b) )
        => /\ resp'[Main].message = ErrorBorrowing
           /\ loans' = loans
           /\ books' = books
      ]_vars

\* a Borrow has just ended with the 500 error, after earlier loans, and the
\* book it asked for is still available
C30_Witness ==
    /\ resp[Main].message = ErrorBorrowing
    /\ Len(loans) > 0
    /\ books["b1"].available

====
